---- MODULE Spec2Model ----
(***************************************************************************)
(* Model of bci_build/package.py: the image descriptors                    *)
(* (BaseContainerImage, LanguageStackContainer, ApplicationStackContainer, *)
(* OsContainer), their derived properties and write_files_to_folder.       *)
(*                                                                         *)
(* A Python str is a sequence of atoms.  The atoms of a name are its       *)
(* characters; a literal of the source that the code never looks into is   *)
(* a single atom.  Concatenation (f-strings, +, join) is \o.               *)
(***************************************************************************)
EXTENDS Integers, Sequences, FiniteSets, TLC

VARIABLES image, ctor, ret, fs, dest0, wpc, files, tasks, firstFailed, outcome,
          catalog, consumed, cli, tomcat, can_be_latest

\* The state of the module-level data: the catalog, the command line, the Tomcat
\* containers.
loadVars == <<catalog, consumed, cli, tomcat, can_be_latest>>

vars == <<image, ctor, ret, fs, dest0, wpc, files, tasks, firstFailed, outcome, loadVars>>

(***************************************************************************)
(* Bounds of the model.                                                    *)
(***************************************************************************)
MaxPkgs == 3
MaxNames == 1
MaxVersions == 1
MaxExtra == 1

(***************************************************************************)
(* Sequences up to a length, and str helpers.                              *)
(***************************************************************************)
SeqsUpTo(S, n) == UNION {[1..k -> S] : k \in 0..n}

\* s.split(sep) for a separator of one atom
RECURSIVE SplitOn(_, _)
SplitOn(s, sep) ==
    IF \A i \in 1..Len(s) : s[i] # sep THEN <<s>>
    ELSE LET i == CHOOSE k \in 1..Len(s) : s[k] = sep /\ \A j \in 1..(k - 1) : s[j] # sep
         IN <<SubSeq(s, 1, i - 1)>> \o SplitOn(SubSeq(s, i + 1, Len(s)), sep)

RECURSIVE Flatten(_)
Flatten(ss) == IF ss = <<>> THEN <<>> ELSE Head(ss) \o Flatten(Tail(ss))

\* sep.join(strs)
RECURSIVE Join(_, _)
Join(strs, sep) ==
    IF strs = <<>> THEN <<>>
    ELSE IF Len(strs) = 1 THEN strs[1]
    ELSE strs[1] \o sep \o Join(Tail(strs), sep)

Digit(d) == CASE d = 0 -> "0" [] d = 1 -> "1" [] d = 2 -> "2" [] d = 3 -> "3"
              [] d = 4 -> "4" [] d = 5 -> "5" [] d = 6 -> "6" [] d = 7 -> "7"
              [] d = 8 -> "8" [] d = 9 -> "9"

\* str(n) for an int n >= 0
RECURSIVE IntToStr(_)
IntToStr(n) == IF n < 10 THEN <<Digit(n)>> ELSE IntToStr(n \div 10) \o <<Digit(n % 10)>>

(***************************************************************************)
(* Enumerations.                                                           *)
(***************************************************************************)
BuildType == {"docker", "kiwi"}

PackageType == {"delete", "uninstall", "bootstrap", "image"}

\* An entry of package_list: a plain str (cls "str", pkg_type unused) or a Package.
StrEntry(n) == [cls |-> "str", name |-> n, pkg_type |-> "none"]

Package(n, t) == [cls |-> "Package", name |-> n, pkg_type |-> t]

\* Package.__str__ and str.__str__
EntryStr(p) == p.name

\* version: Union[str, int]
StrV(s) == [t |-> "str", s |-> s, n |-> 0]

IntV(n) == [t |-> "int", s |-> <<>>, n |-> n]

\* str(self.version)
VersionStr(v) == IF v.t = "str" THEN v.s ELSE IntToStr(v.n)

\* truth value of self.version
VersionTruthy(v) == IF v.t = "str" THEN v.s # <<>> ELSE v.n # 0

(***************************************************************************)
(* The dataclass fields.  An OsContainer has no version,                   *)
(* additional_versions or registry prefix: the record carries the          *)
(* defaults there and no OsContainer operation reads them.                 *)
(***************************************************************************)
Classes == {"OsContainer", "LanguageStackContainer", "ApplicationStackContainer"}

DefaultImage ==
    [cls |-> "LanguageStackContainer",
     name |-> <<"a">>,
     ibs_package |-> <<"a", "i">>,
     is_latest |-> FALSE,
     package_list |-> <<StrEntry(<<"p">>)>>,
     custom_end |-> <<>>,
     config_sh_script |-> <<>>,
     extra_files |-> <<>>,
     additional_names |-> <<>>,
     build_recipe_type |-> "docker",
     version |-> StrV(<<>>),
     additional_versions |-> <<>>,
     registry_prefix |-> <<"b", "c", "i">>,
     pretty_name |-> <<"P">>,
     custom_description |-> <<>>,
     custom_labelprefix_end |-> <<>>,
     env |-> <<>>,
     sp_version |-> 4]

(***************************************************************************)
(* __post_init__: [raised |-> a ValueError was raised, self |-> the object *)
(* as the method leaves it].                                               *)
(***************************************************************************)
BaseContainerImage_post_init(self) ==
    [raised |-> \/ self.package_list = <<>>
                \/ (self.config_sh_script # <<>> /\ self.custom_end # <<>>),
     self |-> self]

\* Variant: the version check left out.
LanguageStackContainer_post_init_NoCheck(self) == [raised |-> FALSE, self |-> self]

\* Overrides BaseContainerImage.__post_init__ and does not call it.
LanguageStackContainer_post_init(self) ==
    [raised |-> ~VersionTruthy(self.version), self |-> self]

\* Variant: the assignment of the registry prefix left out.
ApplicationStackContainer_post_init_NoPrefix(self) == LanguageStackContainer_post_init(self)

ApplicationStackContainer_post_init(self) ==
    LanguageStackContainer_post_init([self EXCEPT !.registry_prefix = <<"s", "u", "s", "e">>])

\* The __post_init__ the dataclass-generated __init__ of each class calls.
PostInit(self) ==
    CASE self.cls = "OsContainer" -> BaseContainerImage_post_init(self)
      [] self.cls = "LanguageStackContainer" -> LanguageStackContainer_post_init(self)
      [] self.cls = "ApplicationStackContainer" -> ApplicationStackContainer_post_init(self)

(***************************************************************************)
(* Derived properties.  A property that can raise yields                   *)
(* [raised |-> BOOLEAN, val |-> its value when it returns].                *)
(***************************************************************************)
dockerfile_custom_end(self) ==
    IF self.custom_end # <<>> THEN self.custom_end
    ELSE IF self.config_sh_script # <<>> THEN <<"RUN ">> \o self.config_sh_script
    ELSE <<>>

config_sh(self) ==
    IF self.config_sh_script = <<>>
    THEN [raised |-> self.custom_end # <<>>, val |-> <<>>]
    ELSE [raised |-> FALSE,
          val |-> <<"#!/bin/bash -e ... suseImportBuildKey\n\n">>
                  \o self.config_sh_script \o <<"\n\nexit 0\n">>]

\* An item of env: the variable and its value, a str or an int.
EnvItem(k, v) == [k |-> k, v |-> v]

env_lines(self) ==
    Join([i \in 1..Len(self.env) |->
            <<"ENV ">> \o self.env[i].k \o <<"=\"">> \o VersionStr(self.env[i].v) \o <<"\"">>],
         <<"\n">>)

kiwi_env_entry(self) ==
    IF self.env = <<>> THEN <<>>
    ELSE <<"        <environment>\n          ">>
         \o Join([i \in 1..Len(self.env) |->
                    <<"<env name=\"">> \o self.env[i].k \o <<"\" value=\"">>
                    \o VersionStr(self.env[i].v) \o <<"\"/>">>],
                 <<"\n          ">>)
         \o <<"\n        </environment>\n">>

\* Variant: the templated text also when custom_description is set.
description_NoOverride(self) ==
    <<"Image containing ">> \o self.pretty_name
    \o <<" based on the SLE Base Container Image.">>

description(self) ==
    IF self.custom_description # <<>> THEN self.custom_description
    ELSE <<"Image containing ">> \o self.pretty_name
         \o <<" based on the SLE Base Container Image.">>

title(self) == <<"SLE BCI ">> \o self.pretty_name \o <<" Container Image">>

labelprefix(self) ==
    <<"com.suse.bci.">>
    \o (IF self.custom_labelprefix_end # <<>> THEN self.custom_labelprefix_end ELSE self.name)

\* Variant: the pkg_type check left out.
packages_NoCheck(self) ==
    [raised |-> FALSE,
     val |-> Join([i \in 1..Len(self.package_list) |-> EntryStr(self.package_list[i])], <<" ">>)]

packages(self) ==
    [raised |-> \E i \in 1..Len(self.package_list) :
                    /\ self.package_list[i].cls = "Package"
                    /\ self.package_list[i].pkg_type # "image",
     val |-> Join([i \in 1..Len(self.package_list) |-> EntryStr(self.package_list[i])], <<" ">>)]

\* create_pkg_filter_func(pkg_type)(p)
pkg_filter_func(pkg_type, p) ==
    IF p.cls = "str" THEN pkg_type = "image" ELSE p.pkg_type = pkg_type

\* Variant: bootstrap and image swapped.
PKG_TYPES_Swapped == <<"delete", "image", "bootstrap", "uninstall">>

PKG_TYPES == <<"delete", "bootstrap", "image", "uninstall">>

\* list(filter(create_pkg_filter_func(pkg_type), self.package_list))
FilterPkgs(self, pkg_type) ==
    LET keep(p) == pkg_filter_func(pkg_type, p) IN SelectSeq(self.package_list, keep)

\* Variant: the len(pkg_list) > 0 test left out.
PkgBlock_AlsoEmpty(pkg_list, pkg_type) ==
    <<"  <packages type=\"", pkg_type, "\">\n    ">>
    \o Join([i \in 1..Len(pkg_list) |->
                <<"<package name=\"">> \o EntryStr(pkg_list[i]) \o <<"\"/>">>],
            <<"\n    ">>)
    \o <<"\n  </packages>\n">>

\* What one turn of the loop adds to res.
PkgBlock(pkg_list, pkg_type) ==
    IF Len(pkg_list) > 0
    THEN <<"  <packages type=\"", pkg_type, "\">\n    ">>
         \o Join([i \in 1..Len(pkg_list) |->
                     <<"<package name=\"">> \o EntryStr(pkg_list[i]) \o <<"\"/>">>],
                 <<"\n    ">>)
         \o <<"\n  </packages>\n">>
    ELSE <<>>

kiwi_packages(self) ==
    Flatten([k \in 1..Len(PKG_TYPES) |-> PkgBlock(FilterPkgs(self, PKG_TYPES[k]), PKG_TYPES[k])])

VersionLabel(self) ==
    IF self.cls = "OsContainer" THEN <<"%OS_VERSION_ID_SP%.%RELEASE%">>
    ELSE VersionStr(self.version)

Names(self) == <<self.name>> \o self.additional_names

\* Variant: the release-suffixed tag left out.
LanguageStackContainer_tags_for_NoRelease(self, name) ==
    LET pre == self.registry_prefix \o <<"/">> \o name \o <<":">> IN
    <<pre \o VersionLabel(self)>>
    \o (IF self.is_latest THEN <<pre \o <<"latest">>>> ELSE <<>>)
    \o [i \in 1..Len(self.additional_versions) |-> pre \o self.additional_versions[i]]

\* The tags one turn of the loop of LanguageStackContainer.build_tags adds.
LanguageStackContainer_tags_for(self, name) ==
    LET pre == self.registry_prefix \o <<"/">> \o name \o <<":">> IN
    <<pre \o VersionLabel(self)>>
    \o (IF self.is_latest THEN <<pre \o <<"latest">>>> ELSE <<>>)
    \o <<pre \o VersionLabel(self) \o <<"-%RELEASE%">>>>
    \o [i \in 1..Len(self.additional_versions) |-> pre \o self.additional_versions[i]]

\* The tags one turn of the loop of OsContainer.build_tags adds.
OsContainer_tags_for(self, name) ==
    LET pre == <<"b", "c", "i", "/", "b", "c", "i", "-">> \o name \o <<":">> IN
    <<pre \o <<"%OS_VERSION_ID_SP%">>, pre \o VersionLabel(self)>>
    \o (IF self.is_latest THEN <<pre \o <<"latest">>>> ELSE <<>>)

build_tags(self) ==
    Flatten([k \in 1..Len(Names(self)) |->
                IF self.cls = "OsContainer"
                THEN OsContainer_tags_for(self, Names(self)[k])
                ELSE LanguageStackContainer_tags_for(self, Names(self)[k])])

(***************************************************************************)
(* The destination directory: file name -> [exists, data].                 *)
(***************************************************************************)
ChangesName(self) == self.ibs_package \o <<".changes">>

KiwiName(self) == self.ibs_package \o <<".kiwi">>

FileNames ==
    {<<"_service">>, <<"Dockerfile">>, <<"config.sh">>, KiwiName(DefaultImage),
     ChangesName(DefaultImage), <<"f">>}

NoFile == [exists |-> FALSE, data |-> <<>>]

File(d) == [exists |-> TRUE, data |-> d]

EmptyDest == [f \in FileNames |-> NoFile]

\* The changelog history a destination may already hold.
History == <<"h", "i", "s", "t">>

reference(self) == <<"registry.suse.com/">> \o build_tags(self)[1]

\* path.endswith(suffix)
EndsWith(path, suffix) ==
    /\ Len(suffix) <= Len(path)
    /\ SubSeq(path, Len(path) - Len(suffix) + 1, Len(path)) = suffix

\* [raised |-> the unpacking of split(":") raised ValueError, none |-> the
\* result is None, val |-> the str otherwise].
kiwi_additional_tags(self) ==
    LET rest == Tail(build_tags(self))
        parts == [i \in 1..Len(rest) |-> SplitOn(rest[i], ":")]
        kept == SelectSeq([i \in 1..Len(rest) |-> i],
                          LAMBDA i : Len(parts[i]) = 2 /\ EndsWith(parts[i][1], self.name))
        extra_tags == [j \in 1..Len(kept) |-> parts[kept[j]][2]]
    IN  IF \E i \in 1..Len(rest) : Len(parts[i]) # 2
        THEN [raised |-> TRUE, none |-> FALSE, val |-> <<>>]
        ELSE [raised |-> FALSE, none |-> extra_tags = <<>>, val |-> Join(extra_tags, <<",">>)]

(***************************************************************************)
(* The inputs each specification draws the constructor's arguments from.   *)
(***************************************************************************)
PkgNames == {<<"p">>, <<"q", "t">>}

PkgEntries ==
    {StrEntry(n) : n \in PkgNames} \cup {Package(n, t) : n \in PkgNames, t \in PackageType}

Tails == {<<>>, <<"E">>}

Versions == {StrV(<<>>), StrV(<<"1">>), IntV(0), IntV(12)}

CtorInputs ==
    {[DefaultImage EXCEPT !.cls = c, !.package_list = pl, !.custom_end = ce,
                          !.config_sh_script = cs, !.version = v] :
        c \in Classes,
        pl \in SeqsUpTo({StrEntry(<<"p">>), Package(<<"q", "t">>, "delete")}, MaxPkgs),
        ce \in Tails, cs \in Tails, v \in Versions}

PkgInputs ==
    {[DefaultImage EXCEPT !.cls = c, !.package_list = pl, !.version = StrV(<<"1">>)] :
        c \in Classes, pl \in SeqsUpTo(PkgEntries, MaxPkgs)}

TagInputs ==
    {[DefaultImage EXCEPT !.cls = c, !.version = v, !.is_latest = l,
                          !.additional_names = an, !.additional_versions = av] :
        c \in Classes, v \in Versions, l \in BOOLEAN,
        an \in SeqsUpTo({<<"x", "a">>, <<"b">>}, MaxNames),
        av \in SeqsUpTo({<<"v">>, <<"1", ".", "2">>}, MaxVersions)}

Envs ==
    {<<>>, <<EnvItem(<<"K">>, StrV(<<"v">>))>>,
     <<EnvItem(<<"K">>, StrV(<<"v">>)), EnvItem(<<"N">>, IntV(12))>>}

PropInputs ==
    {[DefaultImage EXCEPT !.cls = c, !.version = StrV(<<"1">>), !.custom_end = ce,
                          !.config_sh_script = cs, !.custom_description = cd,
                          !.custom_labelprefix_end = le, !.pretty_name = pn, !.env = e,
                          !.additional_names = an, !.is_latest = l] :
        c \in Classes, l \in BOOLEAN, ce \in Tails, cs \in Tails, cd \in {<<>>, <<"D">>},
        le \in {<<>>, <<"L">>}, pn \in {<<"P">>, <<"Q", "r">>}, e \in Envs,
        an \in SeqsUpTo({<<"x", "a">>, <<"b">>}, MaxNames)}

\* An item of extra_files: the file name, the contents and whether they are bytes.
Extra(n, c, b) == [name |-> n, contents |-> c, bytes |-> b]

ExtraEntries ==
    {Extra(<<"f">>, <<"x", "y">>, FALSE), Extra(<<"f">>, <<>>, FALSE),
     Extra(<<"f">>, <<"z">>, TRUE), Extra(<<"_service">>, <<"x">>, FALSE),
     Extra(ChangesName(DefaultImage), <<"x">>, FALSE)}

\* The dicts of at most MaxExtra items, in insertion order.
ExtraFiles ==
    {ef \in SeqsUpTo(ExtraEntries, MaxExtra) :
        \A i, j \in 1..Len(ef) : i # j => ef[i].name # ef[j].name}

WriteInputs ==
    {[DefaultImage EXCEPT !.cls = "OsContainer", !.build_recipe_type = b, !.custom_end = ce,
                          !.config_sh_script = cs, !.extra_files = ef] :
        b \in BuildType, ce \in Tails, cs \in Tails, ef \in ExtraFiles}
    \cup {[DefaultImage EXCEPT !.cls = "OsContainer", !.build_recipe_type = b,
                               !.package_list = <<Package(<<"p">>, "delete")>>] :
            b \in BuildType}

NoRet == [op |-> "none", raised |-> FALSE, val |-> <<>>]

NoOutcome == [kind |-> "none", val |-> <<>>, task |-> 0]

\* No call of write_files_to_folder has been made.
WriteIdle ==
    /\ wpc = "idle"
    /\ files = <<>>
    /\ tasks = <<>>
    /\ firstFailed = 0
    /\ outcome = NoOutcome

\* A descriptor selected by no command line.
NoCli == [pc |-> "none", key |-> <<>>, bci |-> DefaultImage]

\* The module-level data are not modelled.
LoadIdle ==
    /\ catalog = <<>>
    /\ consumed = 0
    /\ cli = NoCli
    /\ tomcat = <<>>
    /\ can_be_latest = {}

writeVars == <<fs, dest0, wpc, files, tasks, firstFailed, outcome>>

(***************************************************************************)
(* Construction: the generated __init__ stores the arguments and calls     *)
(* __post_init__.                                                          *)
(***************************************************************************)
Construct ==
    /\ ctor = "pending"
    /\ LET r == PostInit(image) IN
        /\ ctor' = IF r.raised THEN "ValueError" ELSE "ok"
        /\ image' = r.self
    /\ UNCHANGED <<loadVars, ret, writeVars>>

ReadPackages ==
    /\ ctor = "ok"
    /\ ret' = [op |-> "packages", raised |-> packages(image).raised,
               val |-> IF packages(image).raised THEN <<>> ELSE packages(image).val]
    /\ UNCHANGED <<loadVars, image, ctor, writeVars>>

ReadKiwiPackages ==
    /\ ctor = "ok"
    /\ ret' = [op |-> "kiwi_packages", raised |-> FALSE, val |-> kiwi_packages(image)]
    /\ UNCHANGED <<loadVars, image, ctor, writeVars>>

\* Variant: the list of names built in place, in additional_names.
ReadBuildTags_InPlace ==
    /\ ctor = "ok"
    /\ ret' = [op |-> "build_tags", raised |-> FALSE, val |-> build_tags(image)]
    /\ image' = [image EXCEPT !.additional_names = <<image.name>> \o image.additional_names]
    /\ UNCHANGED <<loadVars, ctor, writeVars>>

ReadBuildTags ==
    /\ ctor = "ok"
    /\ ret' = [op |-> "build_tags", raised |-> FALSE, val |-> build_tags(image)]
    /\ UNCHANGED <<loadVars, image, ctor, writeVars>>

\* A property read that returns a str.
Read(op, val) ==
    /\ ctor = "ok"
    /\ ret' = [op |-> op, raised |-> FALSE, val |-> val]
    /\ UNCHANGED <<loadVars, image, ctor, writeVars>>

ReadConfigSh ==
    /\ ctor = "ok"
    /\ ret' = [op |-> "config_sh", raised |-> config_sh(image).raised,
               val |-> config_sh(image).val]
    /\ UNCHANGED <<loadVars, image, ctor, writeVars>>

ReadDockerfileCustomEnd == Read("dockerfile_custom_end", dockerfile_custom_end(image))

ReadEnvLines == Read("env_lines", env_lines(image))

ReadKiwiEnvEntry == Read("kiwi_env_entry", kiwi_env_entry(image))

ReadDescription == Read("description", description(image))

ReadTitle == Read("title", title(image))

ReadLabelprefix == Read("labelprefix", labelprefix(image))

ReadReference == Read("reference", reference(image))

\* val is [none |-> the result is None, s |-> the str otherwise].
ReadKiwiAdditionalTags ==
    /\ ctor = "ok"
    /\ LET r == kiwi_additional_tags(image) IN
        ret' = [op |-> "kiwi_additional_tags", raised |-> r.raised,
                val |-> [none |-> r.none, s |-> r.val]]
    /\ UNCHANGED <<loadVars, image, ctor, writeVars>>

\* Every derived property but the package renderings.
ReadProperty ==
    \/ ReadBuildTags
    \/ ReadConfigSh
    \/ ReadDockerfileCustomEnd
    \/ ReadEnvLines
    \/ ReadKiwiEnvEntry
    \/ ReadDescription
    \/ ReadTitle
    \/ ReadLabelprefix
    \/ ReadReference
    \/ ReadKiwiAdditionalTags

InitWith(inputs) ==
    /\ image \in inputs
    /\ ctor = "pending"
    /\ ret = NoRet
    /\ fs = EmptyDest
    /\ dest0 = EmptyDest
    /\ WriteIdle
    /\ LoadIdle

\* Construction, over the fields __post_init__ reads.
InitCtor == InitWith(CtorInputs)

NextCtor == Construct \/ ReadPackages

SpecCtor == InitCtor /\ [][NextCtor]_vars

\* The package renderings.
InitPkg == InitWith(PkgInputs)

NextPkg == Construct \/ ReadPackages \/ ReadKiwiPackages

SpecPkg == InitPkg /\ [][NextPkg]_vars

\* Construction and the tag derivation.
InitTags == InitWith(TagInputs)

NextTags == Construct \/ ReadBuildTags

SpecTags == InitTags /\ [][NextTags]_vars

\* Construction and the derived properties of the labels, tails and tags.
InitProps == InitWith(PropInputs)

NextProps == Construct \/ ReadProperty

SpecProps == InitProps /\ [][NextProps]_vars

(***************************************************************************)
(* The templates (bci_build/templates.py): render(image=self) -> str.      *)
(* The Dockerfile template reads image.packages, which can raise.          *)
(***************************************************************************)
DockerfileRender(self) ==
    [raised |-> packages(self).raised,
     val |-> <<"DOCKERFILE_TEMPLATE">> \o packages(self).val \o dockerfile_custom_end(self)]

KiwiRender(self) == <<"KIWI_TEMPLATE">> \o kiwi_packages(self)

ServiceRender(self) == <<"SERVICE_TEMPLATE">>

(***************************************************************************)
(* write_files_to_folder.  Up to its await the coroutine runs without      *)
(* yielding to the event loop: it builds files and creates the tasks,      *)
(* none of which has started.  WritePlan is that part: raised when it      *)
(* ends in a ValueError, with the tasks created until then.                *)
(***************************************************************************)
\* asyncio.ensure_future(write_to_file(fname, contents, mode))
Task(fname, contents, mode) ==
    [fname |-> fname, contents |-> contents, mode |-> mode, st |-> "created"]

\* Variant: every extra file opened in text mode.
ExtraTasks_TextOnly(self) ==
    [i \in 1..Len(self.extra_files) |->
        Task(self.extra_files[i].name, self.extra_files[i].contents, "w")]

ExtraTasks(self) ==
    [i \in 1..Len(self.extra_files) |->
        Task(self.extra_files[i].name, self.extra_files[i].contents,
             IF self.extra_files[i].bytes THEN "bw" ELSE "w")]

ExtraNames(self) == [i \in 1..Len(self.extra_files) |-> self.extra_files[i].name]

\* Variant: the os.path.exists test left out.
PlanTail_AlwaysChangelog(self, dest, fl, tk) ==
    [raised |-> FALSE,
     files |-> fl \o <<ChangesName(self)>> \o ExtraNames(self),
     tasks |-> tk \o <<Task(<<"_service">>, ServiceRender(self), "w")>>
                  \o <<Task(ChangesName(self), <<>>, "w")>>
                  \o ExtraTasks(self)]

\* The _service task, the changelog stub and the extra files.
PlanTail(self, dest, fl, tk) ==
    LET fresh == ~dest[ChangesName(self)].exists IN
    [raised |-> FALSE,
     files |-> fl \o (IF fresh THEN <<ChangesName(self)>> ELSE <<>>) \o ExtraNames(self),
     tasks |-> tk \o <<Task(<<"_service">>, ServiceRender(self), "w")>>
                  \o (IF fresh THEN <<Task(ChangesName(self), <<>>, "w")>> ELSE <<>>)
                  \o ExtraTasks(self)]

WritePlan(self, dest) ==
    IF self.build_recipe_type = "docker"
    THEN IF DockerfileRender(self).raised
         THEN [raised |-> TRUE, files |-> <<(<<"_service">>)>>, tasks |-> <<>>]
         ELSE PlanTail(self, dest, <<(<<"_service">>), (<<"Dockerfile">>)>>,
                       <<Task(<<"Dockerfile">>, DockerfileRender(self).val, "w")>>)
    ELSE LET kiwi == Task(KiwiName(self), KiwiRender(self), "w") IN
         IF config_sh(self).raised
         THEN [raised |-> TRUE, files |-> <<(<<"_service">>), KiwiName(self)>>,
               tasks |-> <<kiwi>>]
         ELSE IF config_sh(self).val # <<>>
              THEN PlanTail(self, dest,
                            <<(<<"_service">>), KiwiName(self), (<<"config.sh">>)>>,
                            <<kiwi, Task(<<"config.sh">>, config_sh(self).val, "w")>>)
              ELSE PlanTail(self, dest, <<(<<"_service">>), KiwiName(self)>>, <<kiwi>>)

CallWrite ==
    /\ ctor = "ok"
    /\ wpc = "idle"
    /\ LET plan == WritePlan(image, fs) IN
        /\ files' = plan.files
        /\ tasks' = plan.tasks
        /\ wpc' = IF plan.raised THEN "raised" ELSE "gather"
        /\ outcome' = IF plan.raised THEN [kind |-> "ValueError", val |-> <<>>, task |-> 0]
                      ELSE outcome
    /\ UNCHANGED <<loadVars, image, ctor, ret, fs, dest0, firstFailed>>

(***************************************************************************)
(* write_to_file: aiofiles.open, f.write, close on leaving the with block, *)
(* each awaited, so the event loop interleaves the tasks between them.     *)
(***************************************************************************)
\* open(path, "w" / "bw") creates the file or truncates it.
Opened(dest, fname) == [dest EXCEPT ![fname] = File(<<>>)]

\* The handle is at offset 0 and writes over what the file holds there.
Written(dest, fname, contents) ==
    [dest EXCEPT ![fname] =
        File(contents \o SubSeq(dest[fname].data, Len(contents) + 1, Len(dest[fname].data)))]

TaskOpen ==
    \E i \in 1..Len(tasks) :
        /\ tasks[i].st = "created"
        /\ tasks' = [tasks EXCEPT ![i].st = "opened"]
        /\ fs' = Opened(fs, tasks[i].fname)
        /\ UNCHANGED <<loadVars, image, ctor, ret, dest0, wpc, files, firstFailed, outcome>>

\* aiofiles.open raises (OSError): the task is done, with that exception.
TaskOpenFails ==
    \E i \in 1..Len(tasks) :
        /\ tasks[i].st = "created"
        /\ tasks' = [tasks EXCEPT ![i].st = "failed"]
        /\ firstFailed' = IF firstFailed = 0 THEN i ELSE firstFailed
        /\ UNCHANGED <<loadVars, image, ctor, ret, fs, dest0, wpc, files, outcome>>

TaskWrite ==
    \E i \in 1..Len(tasks) :
        /\ tasks[i].st = "opened"
        /\ tasks' = [tasks EXCEPT ![i].st = "written"]
        /\ fs' = Written(fs, tasks[i].fname, tasks[i].contents)
        /\ UNCHANGED <<loadVars, image, ctor, ret, dest0, wpc, files, firstFailed, outcome>>

TaskClose ==
    \E i \in 1..Len(tasks) :
        /\ tasks[i].st = "written"
        /\ tasks' = [tasks EXCEPT ![i].st = "closed"]
        /\ UNCHANGED <<loadVars, image, ctor, ret, fs, dest0, wpc, files, firstFailed, outcome>>

\* Variant: returns without awaiting the tasks.
GatherReturn_NoJoin ==
    /\ wpc = "gather"
    /\ wpc' = "returned"
    /\ outcome' = [kind |-> "returned", val |-> files, task |-> 0]
    /\ UNCHANGED <<loadVars, image, ctor, ret, fs, dest0, files, tasks, firstFailed>>

\* Variant: gather(..., return_exceptions=True), a failed task counts as done.
GatherReturn_ReturnExceptions ==
    /\ wpc = "gather"
    /\ \A i \in 1..Len(tasks) : tasks[i].st \in {"closed", "failed"}
    /\ wpc' = "returned"
    /\ outcome' = [kind |-> "returned", val |-> files, task |-> 0]
    /\ UNCHANGED <<loadVars, image, ctor, ret, fs, dest0, files, tasks, firstFailed>>

\* await asyncio.gather(*tasks) returns once every task is done; return files.
GatherReturn ==
    /\ wpc = "gather"
    /\ \A i \in 1..Len(tasks) : tasks[i].st = "closed"
    /\ wpc' = "returned"
    /\ outcome' = [kind |-> "returned", val |-> files, task |-> 0]
    /\ UNCHANGED <<loadVars, image, ctor, ret, fs, dest0, files, tasks, firstFailed>>

\* Variant: the failure cancels the tasks that are not done.
GatherRaise_Cancels ==
    /\ wpc = "gather"
    /\ firstFailed # 0
    /\ wpc' = "raised"
    /\ outcome' = [kind |-> "OSError", val |-> <<>>, task |-> firstFailed]
    /\ tasks' = [i \in 1..Len(tasks) |->
                    IF tasks[i].st \in {"closed", "failed"} THEN tasks[i]
                    ELSE [tasks[i] EXCEPT !.st = "cancelled"]]
    /\ UNCHANGED <<loadVars, image, ctor, ret, fs, dest0, files, firstFailed>>

\* gather raises the exception of the task that failed first; the others go on.
GatherRaise ==
    /\ wpc = "gather"
    /\ firstFailed # 0
    /\ wpc' = "raised"
    /\ outcome' = [kind |-> "OSError", val |-> <<>>, task |-> firstFailed]
    /\ UNCHANGED <<loadVars, image, ctor, ret, fs, dest0, files, tasks, firstFailed>>

\* A destination with or without a changelog.
InitWrite ==
    /\ image \in WriteInputs
    /\ ctor = "pending"
    /\ ret = NoRet
    /\ fs \in {EmptyDest, [EmptyDest EXCEPT ![ChangesName(DefaultImage)] = File(History)]}
    /\ dest0 = fs
    /\ WriteIdle
    /\ LoadIdle

NextWrite ==
    \/ Construct
    \/ CallWrite
    \/ TaskOpen
    \/ TaskOpenFails
    \/ TaskWrite
    \/ TaskClose
    \/ GatherReturn
    \/ GatherRaise

SpecWrite == InitWrite /\ [][NextWrite]_vars

\* Every task of the last call is done.
TasksDone == \A i \in 1..Len(tasks) : tasks[i].st \in {"closed", "failed"}

\* write_files_to_folder called again, on the destination as the calls before
\* left it.
CallWriteAgain ==
    /\ ctor = "ok"
    /\ wpc \in {"returned", "raised"}
    /\ TasksDone
    /\ LET plan == WritePlan(image, fs) IN
        /\ files' = plan.files
        /\ tasks' = plan.tasks
        /\ wpc' = IF plan.raised THEN "raised" ELSE "gather"
        /\ outcome' = IF plan.raised THEN [kind |-> "ValueError", val |-> <<>>, task |-> 0]
                      ELSE NoOutcome
    /\ dest0' = fs
    /\ firstFailed' = 0
    /\ UNCHANGED <<loadVars, image, ctor, ret, fs>>

\* Descriptors of each class with packages, env and additional names: built by
\* docker with an extra file, built by kiwi with a config.sh script.
RenderInputs ==
    {[DefaultImage EXCEPT !.cls = c, !.version = StrV(<<"1">>),
                          !.env = <<EnvItem(<<"K">>, StrV(<<"v">>))>>,
                          !.extra_files = <<Extra(<<"f">>, <<"x", "y">>, FALSE)>>,
                          !.additional_names = <<(<<"x", "a">>)>>] : c \in Classes}
    \cup
    {[DefaultImage EXCEPT !.cls = c, !.version = StrV(<<"1">>),
                          !.build_recipe_type = "kiwi", !.config_sh_script = <<"E">>,
                          !.env = <<EnvItem(<<"K">>, StrV(<<"v">>))>>,
                          !.additional_names = <<(<<"x", "a">>)>>] : c \in Classes}

\* Rendering: the properties read and the files written, in any order and any
\* number of times.
InitRender ==
    /\ image \in RenderInputs
    /\ ctor = "pending"
    /\ ret = NoRet
    /\ fs = [EmptyDest EXCEPT ![ChangesName(DefaultImage)] = File(History)]
    /\ dest0 = fs
    /\ WriteIdle
    /\ LoadIdle

NextRender ==
    \/ Construct
    \/ ReadPackages
    \/ ReadKiwiPackages
    \/ ReadProperty
    \/ CallWrite
    \/ CallWriteAgain
    \/ TaskOpen
    \/ TaskOpenFails
    \/ TaskWrite
    \/ TaskClose
    \/ GatherReturn
    \/ GatherRaise

SpecRender == InitRender /\ [][NextRender]_vars

(***************************************************************************)
(* The catalog ALL_CONTAINER_IMAGE_NAMES and the command line.  Of a       *)
(* listed descriptor the model keeps what its key is built from.           *)
(***************************************************************************)
Bci(cls, name, version, sp_version) ==
    [DefaultImage EXCEPT !.cls = cls, !.name = name, !.version = version,
                         !.sp_version = sp_version]

\* Variant: the version left out of the identifier.
LanguageStackContainer_nvr_NoVersion(self) == self.name

LanguageStackContainer_nvr(self) == self.name \o <<"-">> \o VersionStr(self.version)

OsContainer_nvr(self) == self.name

nvr(self) ==
    IF self.cls = "OsContainer" THEN OsContainer_nvr(self)
    ELSE LanguageStackContainer_nvr(self)

\* f"{bci.nvr}-sp{bci.sp_version}"
CatalogKey(bci) == nvr(bci) \o <<"-", "s", "p">> \o IntToStr(bci.sp_version)

PYTHON_3_6_CONTAINERS ==
    <<Bci("LanguageStackContainer", <<"p", "y", "t", "h", "o", "n">>, StrV(<<"3", ".", "6">>), 3),
      Bci("LanguageStackContainer", <<"p", "y", "t", "h", "o", "n">>, StrV(<<"3", ".", "6">>), 4)>>

PYTHON_3_9_SP3 ==
    Bci("LanguageStackContainer", <<"p", "y", "t", "h", "o", "n">>, StrV(<<"3", ".", "9">>), 3)

THREE_EIGHT_NINE_DS ==
    Bci("ApplicationStackContainer", <<"3", "8", "9", "-", "d", "s">>, StrV(<<"1", ".", "4">>), 4)

NGINX ==
    Bci("ApplicationStackContainer", <<"r", "m", "t", "-", "n", "g", "i", "n", "x">>, StrV(<<"1", ".", "1", "9">>), 4)

RUST_CONTAINERS ==
    <<Bci("LanguageStackContainer", <<"r", "u", "s", "t">>, StrV(<<"1", ".", "5", "6">>), 4),
      Bci("LanguageStackContainer", <<"r", "u", "s", "t">>, StrV(<<"1", ".", "5", "7">>), 4)>>

GOLANG_IMAGES ==
    <<Bci("LanguageStackContainer", <<"g", "o", "l", "a", "n", "g">>, StrV(<<"1", ".", "1", "6">>), 3),
      Bci("LanguageStackContainer", <<"g", "o", "l", "a", "n", "g">>, StrV(<<"1", ".", "1", "6">>), 4),
      Bci("LanguageStackContainer", <<"g", "o", "l", "a", "n", "g">>, StrV(<<"1", ".", "1", "7">>), 3),
      Bci("LanguageStackContainer", <<"g", "o", "l", "a", "n", "g">>, StrV(<<"1", ".", "1", "7">>), 4)>>

RUBY_CONTAINERS ==
    <<Bci("LanguageStackContainer", <<"r", "u", "b", "y">>, StrV(<<"2", ".", "5">>), 3),
      Bci("LanguageStackContainer", <<"r", "u", "b", "y">>, StrV(<<"2", ".", "5">>), 4)>>

NODE_CONTAINERS ==
    <<Bci("LanguageStackContainer", <<"n", "o", "d", "e", "j", "s">>, StrV(<<"1", "2">>), 3),
      Bci("LanguageStackContainer", <<"n", "o", "d", "e", "j", "s">>, StrV(<<"1", "2">>), 4),
      Bci("LanguageStackContainer", <<"n", "o", "d", "e", "j", "s">>, StrV(<<"1", "4">>), 3),
      Bci("LanguageStackContainer", <<"n", "o", "d", "e", "j", "s">>, StrV(<<"1", "4">>), 4),
      Bci("LanguageStackContainer", <<"n", "o", "d", "e", "j", "s">>, StrV(<<"1", "6">>), 3),
      Bci("LanguageStackContainer", <<"n", "o", "d", "e", "j", "s">>, StrV(<<"1", "6">>), 4)>>

OPENJDK_CONTAINERS ==
    <<Bci("LanguageStackContainer", <<"o", "p", "e", "n", "j", "d", "k", "-", "d", "e", "v", "e", "l">>, IntV(11), 3),
      Bci("LanguageStackContainer", <<"o", "p", "e", "n", "j", "d", "k">>, IntV(11), 3),
      Bci("LanguageStackContainer", <<"o", "p", "e", "n", "j", "d", "k", "-", "d", "e", "v", "e", "l">>, IntV(11), 4),
      Bci("LanguageStackContainer", <<"o", "p", "e", "n", "j", "d", "k">>, IntV(11), 4)>>

INIT_CONTAINERS ==
    <<Bci("OsContainer", <<"i", "n", "i", "t">>, StrV(<<>>), 3),
      Bci("OsContainer", <<"i", "n", "i", "t">>, StrV(<<>>), 4)>>

MARIADB_CONTAINERS ==
    <<Bci("LanguageStackContainer", <<"m", "a", "r", "i", "a", "d", "b">>, StrV(<<"1", "0", ".", "6">>), 4)>>

POSTGRES_CONTAINERS ==
    <<Bci("ApplicationStackContainer", <<"p", "o", "s", "t", "g", "r", "e", "s">>, IntV(14), 4),
      Bci("ApplicationStackContainer", <<"p", "o", "s", "t", "g", "r", "e", "s">>, IntV(13), 4),
      Bci("ApplicationStackContainer", <<"p", "o", "s", "t", "g", "r", "e", "s">>, IntV(12), 4),
      Bci("ApplicationStackContainer", <<"p", "o", "s", "t", "g", "r", "e", "s">>, IntV(10), 4)>>

MINIMAL_CONTAINERS ==
    <<Bci("OsContainer", <<"m", "i", "n", "i", "m", "a", "l">>, StrV(<<>>), 3),
      Bci("OsContainer", <<"m", "i", "n", "i", "m", "a", "l">>, StrV(<<>>), 4)>>

MICRO_CONTAINERS ==
    <<Bci("OsContainer", <<"m", "i", "c", "r", "o">>, StrV(<<>>), 3),
      Bci("OsContainer", <<"m", "i", "c", "r", "o">>, StrV(<<>>), 4)>>

BUSYBOX_CONTAINER ==
    Bci("OsContainer", <<"b", "u", "s", "y", "b", "o", "x">>, StrV(<<>>), 4)

\* The descriptors the dict comprehension runs over, in its order.
Listed ==
    PYTHON_3_6_CONTAINERS \o <<PYTHON_3_9_SP3, THREE_EIGHT_NINE_DS, NGINX>>
    \o RUST_CONTAINERS \o GOLANG_IMAGES \o RUBY_CONTAINERS \o NODE_CONTAINERS
    \o OPENJDK_CONTAINERS \o INIT_CONTAINERS \o MARIADB_CONTAINERS
    \o POSTGRES_CONTAINERS \o MINIMAL_CONTAINERS \o MICRO_CONTAINERS
    \o <<BUSYBOX_CONTAINER>>

\* The key ALL_CONTAINER_IMAGE_NAMES.pop is called with.
PoppedKey == <<"n", "o", "d", "e", "j", "s", "-", "1", "6", "-", "s", "p", "3">>

\* A dict is the sequence of its items [key, bci], in insertion order.
DictKeys(d) == {d[i].key : i \in 1..Len(d)}

DictGet(d, key) == d[CHOOSE i \in 1..Len(d) : d[i].key = key].bci

\* d[key] = bci: a key the dict holds keeps its place and gets the new value.
DictSet(d, key, bci) ==
    IF key \in DictKeys(d)
    THEN [i \in 1..Len(d) |-> IF d[i].key = key THEN [key |-> key, bci |-> bci] ELSE d[i]]
    ELSE Append(d, [key |-> key, bci |-> bci])

DictPop(d, key) == SelectSeq(d, LAMBDA item : item.key # key)

\* One turn of the dict comprehension.
CatalogAdd ==
    /\ cli.pc = "import"
    /\ consumed < Len(Listed)
    /\ catalog' = DictSet(catalog, CatalogKey(Listed[consumed + 1]), Listed[consumed + 1])
    /\ consumed' = consumed + 1
    /\ UNCHANGED <<image, ctor, ret, writeVars, cli, tomcat, can_be_latest>>

\* ALL_CONTAINER_IMAGE_NAMES.pop("nodejs-16-sp3"): KeyError when the key is missing.
CatalogPop ==
    /\ cli.pc = "import"
    /\ consumed = Len(Listed)
    /\ IF PoppedKey \in DictKeys(catalog)
       THEN /\ catalog' = DictPop(catalog, PoppedKey)
            /\ cli' = [cli EXCEPT !.pc = "main"]
       ELSE /\ catalog' = catalog
            /\ cli' = [cli EXCEPT !.pc = "KeyError"]
    /\ UNCHANGED <<image, ctor, ret, writeVars, consumed, tomcat, can_be_latest>>

\* The image arguments tried on the command line: the key of every listed
\* descriptor and a key of none.
ArgKeys == {CatalogKey(Listed[i]) : i \in 1..Len(Listed)} \cup {<<"x">>}

\* parser.parse_args(): image is checked against choices, the keys of the catalog.
ParseArgs ==
    /\ cli.pc = "main"
    /\ \E key \in ArgKeys :
        cli' = [cli EXCEPT !.pc = IF key \in DictKeys(catalog) THEN "parsed" ELSE "usage",
                           !.key = key]
    /\ UNCHANGED <<image, ctor, ret, writeVars, catalog, consumed, tomcat, can_be_latest>>

\* ALL_CONTAINER_IMAGE_NAMES[args.image[0]]
Lookup ==
    /\ cli.pc = "parsed"
    /\ cli' = [cli EXCEPT !.pc = "selected", !.bci = DictGet(catalog, cli.key)]
    /\ UNCHANGED <<image, ctor, ret, writeVars, catalog, consumed, tomcat, can_be_latest>>

(***************************************************************************)
(* package/apache_tomcat.py: TOMCAT_CONTAINERS.  Of a container the model  *)
(* keeps the Tomcat major, the OS version and is_latest.                   *)
(***************************************************************************)
\* The OS versions apache_tomcat.py names.
OsVersion == {"SP6", "BASALT", "TUMBLEWEED"}

is_tumbleweed(os_version) == os_version = "TUMBLEWEED"

_TOMCAT_VERSIONS == <<9, 10>>

\* The pairs (tomcat_major, os_version) the list comprehension runs over.
TomcatLoop == <<<<10, "TUMBLEWEED">>, <<9, "TUMBLEWEED">>, <<10, "SP6">>>>

\* Variant: the is_tumbleweed test left out.
tomcat_is_latest_AnyOs(tomcat_major, os_version) ==
    /\ os_version \in can_be_latest
    /\ tomcat_major = _TOMCAT_VERSIONS[Len(_TOMCAT_VERSIONS)]

\* The is_latest argument of a Tomcat container.
tomcat_is_latest(tomcat_major, os_version) ==
    /\ os_version \in can_be_latest
    /\ tomcat_major = _TOMCAT_VERSIONS[Len(_TOMCAT_VERSIONS)]
    /\ is_tumbleweed(os_version)

\* One turn of the list comprehension.
TomcatAdd ==
    /\ Len(tomcat) < Len(TomcatLoop)
    /\ LET tomcat_major == TomcatLoop[Len(tomcat) + 1][1]
           os_version == TomcatLoop[Len(tomcat) + 1][2]
       IN  tomcat' = Append(tomcat, [version |-> tomcat_major, os_version |-> os_version,
                                     is_latest |-> tomcat_is_latest(tomcat_major, os_version)])
    /\ UNCHANGED <<image, ctor, ret, writeVars, catalog, consumed, cli, can_be_latest>>

\* The modules being loaded and the command line run; CAN_BE_LATEST_OS_VERSION
\* is any set of OS versions.
InitLoad ==
    /\ image = DefaultImage
    /\ ctor = "pending"
    /\ ret = NoRet
    /\ fs = EmptyDest
    /\ dest0 = EmptyDest
    /\ WriteIdle
    /\ catalog = <<>>
    /\ consumed = 0
    /\ cli = [NoCli EXCEPT !.pc = "import"]
    /\ tomcat = <<>>
    /\ can_be_latest \in SUBSET OsVersion

NextLoad ==
    \/ CatalogAdd
    \/ CatalogPop
    \/ ParseArgs
    \/ Lookup
    \/ TomcatAdd

SpecLoad == InitLoad /\ [][NextLoad]_vars

(***************************************************************************)
(* Claims.                                                                 *)
(***************************************************************************)
ConstructionRaised == ctor = "ValueError"

\* The install phase of an entry of package_list.
PhaseOf(p) == IF p.cls = "str" THEN "image" ELSE p.pkg_type

\* C2: constructing a descriptor of any kind with an empty package_list raises
\* ValueError, so no constructed descriptor has an empty package list.
C2_EmptyPackageListRaises ==
    (ctor # "pending" /\ image.package_list = <<>>) => ConstructionRaised

\* C3: constructing a descriptor of any kind with both custom_end and
\* config_sh_script non-empty raises ValueError, so no constructed descriptor has
\* both tails set.
C3_BothTailsRaise ==
    (ctor # "pending" /\ image.custom_end # <<>> /\ image.config_sh_script # <<>>)
        => ConstructionRaised

\* C4: constructing a LanguageStackContainer or ApplicationStackContainer with the
\* empty version string raises ValueError, and with a non-empty version string the
\* construction succeeds.
C4_VersionRequired ==
    (/\ ctor # "pending"
     /\ image.cls \in {"LanguageStackContainer", "ApplicationStackContainer"}
     /\ image.version.t = "str")
        => (ConstructionRaised <=> image.version.s = <<>>)

C4_Witness ==
    /\ ConstructionRaised
    /\ image.cls = "ApplicationStackContainer"
    /\ image.version = StrV(<<>>)
    /\ image.package_list # <<>>

\* C5: len(build_tags) is the number of names times (1 + [is_latest] + 1 + number of
\* version aliases), with len(additional_versions) aliases for a language or
\* application stack descriptor and none for an OS descriptor.
C5_TagCount ==
    ret.op = "build_tags" =>
        Len(ret.val) =
            (1 + Len(image.additional_names))
            * (1 + (IF image.is_latest THEN 1 ELSE 0) + 1
                 + (IF image.cls = "OsContainer" THEN 0 ELSE Len(image.additional_versions)))

C5_Witness ==
    /\ ret.op = "build_tags"
    /\ image.cls = "LanguageStackContainer"
    /\ image.is_latest
    /\ image.additional_names # <<>>
    /\ image.additional_versions # <<>>
    /\ Len(ret.val) = 8

\* C6: packages raises ValueError whenever package_list holds a Package whose
\* pkg_type is not IMAGE, at any position; otherwise it returns the names, in list
\* order, separated by single spaces.
C6_Packages ==
    ret.op = "packages" =>
        LET pl == image.package_list
            bad == \E i \in 1..Len(pl) : pl[i].cls = "Package" /\ pl[i].pkg_type # "image"
        IN /\ ret.raised <=> bad
           /\ ~bad => IF pl = <<>> THEN ret.val = <<>>
                      ELSE SplitOn(ret.val, " ") = [i \in 1..Len(pl) |-> pl[i].name]

C6_Witness ==
    /\ ret.op = "packages"
    /\ ~ret.raised
    /\ Len(image.package_list) = 3
    /\ image.package_list[1] = StrEntry(<<"q", "t">>)
    /\ image.package_list[2] = Package(<<"p">>, "image")
    /\ ret.val = <<"q", "t", " ", "p", " ", "p">>

\* The positions of the output at which a <packages> block of a type starts.
BlockStarts(out, t) ==
    {i \in 1..(Len(out) - 1) : out[i] = "  <packages type=\"" /\ out[i + 1] = t}

\* The end of the block that starts at i.
BlockEnd(out, i) ==
    CHOOSE j \in i..Len(out) :
        /\ out[j] = "\n  </packages>\n"
        /\ \A k \in i..(j - 1) : out[k] # "\n  </packages>\n"

\* The names of the <package> elements at positions i..b, in order.
RECURSIVE ElemNames(_, _, _)
ElemNames(out, i, b) ==
    IF i > b THEN <<>>
    ELSE IF out[i] = "<package name=\""
         THEN LET j == CHOOSE k \in (i + 1)..Len(out) :
                          out[k] = "\"/>" /\ \A m \in (i + 1)..(k - 1) : out[m] # "\"/>"
              IN <<SubSeq(out, i + 1, j - 1)>> \o ElemNames(out, i + 1, b)
         ELSE ElemNames(out, i + 1, b)

\* C7: kiwi_packages emits a <packages type=...> block of a phase if and only if
\* some entry of package_list belongs to the phase, at most once, and never an
\* empty one.
C7_NoEmptyPhaseBlock ==
    ret.op = "kiwi_packages" =>
        \A t \in PackageType :
            /\ Cardinality(BlockStarts(ret.val, t))
                 = IF \E i \in 1..Len(image.package_list) : PhaseOf(image.package_list[i]) = t
                   THEN 1 ELSE 0
            /\ \A i \in BlockStarts(ret.val, t) :
                 ElemNames(ret.val, i, BlockEnd(ret.val, i)) # <<>>

C7_Witness ==
    /\ ret.op = "kiwi_packages"
    /\ Len(image.package_list) = 3
    /\ \A i \in 1..3 : PhaseOf(image.package_list[i]) \in {"bootstrap", "uninstall"}
    /\ BlockStarts(ret.val, "bootstrap") # {}
    /\ BlockStarts(ret.val, "uninstall") # {}
    /\ BlockStarts(ret.val, "image") = {}
    /\ BlockStarts(ret.val, "delete") = {}

\* The order in which the blocks are emitted.
C8_Order == <<"delete", "bootstrap", "image", "uninstall">>

\* C8: kiwi_packages partitions package_list: the block of a phase holds exactly the
\* entries of that phase, in the order they have in package_list, no entry appears
\* anywhere else, and the blocks come in the order delete, bootstrap, image,
\* uninstall.
C8_Partition ==
    ret.op = "kiwi_packages" =>
        LET out == ret.val
            pl == image.package_list
            ofPhase(t) == LET is(p) == PhaseOf(p) = t IN SelectSeq(pl, is)
        IN /\ \A t \in PackageType :
                 \A i \in BlockStarts(out, t) :
                     ElemNames(out, i, BlockEnd(out, i))
                        = [k \in 1..Len(ofPhase(t)) |-> ofPhase(t)[k].name]
           /\ \A t \in PackageType : ofPhase(t) # <<>> => BlockStarts(out, t) # {}
           /\ Len(ElemNames(out, 1, Len(out))) = Len(pl)
           /\ \A a, b \in 1..4 :
                 a < b => \A i \in BlockStarts(out, C8_Order[a]) :
                              \A j \in BlockStarts(out, C8_Order[b]) : i < j

C8_Witness ==
    /\ ret.op = "kiwi_packages"
    /\ image.package_list
         = <<Package(<<"q", "t">>, "image"), Package(<<"p">>, "bootstrap"), StrEntry(<<"p">>)>>
    /\ BlockStarts(ret.val, "bootstrap") = {1}
    /\ \E i \in BlockStarts(ret.val, "image") :
          ElemNames(ret.val, i, BlockEnd(ret.val, i)) = <<(<<"q", "t">>), (<<"p">>)>>

Returned == outcome.kind = "returned"

\* The changelog of the descriptor was in the destination before the call.
ChangelogExisted == dest0[ChangesName(image)].exists

\* The files the call generates whatever extra_files holds.
GeneratedNames ==
    {<<"_service">>, <<"Dockerfile">>, <<"config.sh">>, KiwiName(image), ChangesName(image)}

\* The extra_files items of a name.
ExtrasNamed(f) ==
    {i \in 1..Len(image.extra_files) : image.extra_files[i].name = f}

\* The content the descriptor gives a generated file.
GeneratedContent(f) ==
    CASE f = <<"_service">> -> ServiceRender(image)
      [] f = <<"Dockerfile">> -> DockerfileRender(image).val
      [] f = <<"config.sh">> -> config_sh(image).val
      [] f = KiwiName(image) -> KiwiRender(image)
      [] f = ChangesName(image) -> <<>>

\* C1: write_files_to_folder never overwrites an existing changelog, whatever
\* extra_files holds: a changelog that exists before the call has the same content
\* after it, and one that does not exist is there and empty after it.
C1_ChangelogKept ==
    Returned =>
        IF ChangelogExisted
        THEN fs[ChangesName(image)] = dest0[ChangesName(image)]
        ELSE fs[ChangesName(image)] = File(<<>>)

\* C9 as claimed: after a normal return every returned file name exists and holds
\* its expected content, and all are non-empty but a freshly created changelog.
C9_RoundTrip ==
    Returned =>
        \A k \in 1..Len(outcome.val) :
            LET f == outcome.val[k] IN
            /\ fs[f].exists
            /\ f \in GeneratedNames => fs[f].data = GeneratedContent(f)
            /\ \A i \in ExtrasNamed(f) : fs[f].data = image.extra_files[i].contents
            /\ fs[f].data = <<>> => (f = ChangesName(image) /\ ~ChangelogExisted)

\* C9 as amended: after a normal return every returned file name exists; one that
\* is not both a generated file and a key of extra_files holds its expected
\* content; and a returned file is empty only when it is a freshly created
\* changelog or an extra file whose attached content is empty.
C9_RoundTripAmended ==
    Returned =>
        \A k \in 1..Len(outcome.val) :
            LET f == outcome.val[k] IN
            /\ fs[f].exists
            /\ (f \in GeneratedNames /\ ExtrasNamed(f) = {}) =>
                    fs[f].data = GeneratedContent(f)
            /\ f \notin GeneratedNames =>
                    \A i \in ExtrasNamed(f) : fs[f].data = image.extra_files[i].contents
            /\ fs[f].data = <<>> =>
                    \/ f = ChangesName(image) /\ ~ChangelogExisted
                    \/ \E i \in ExtrasNamed(f) : image.extra_files[i].contents = <<>>

C9_Witness ==
    /\ Returned
    /\ image.build_recipe_type = "kiwi"
    /\ outcome.val
         = <<(<<"_service">>), KiwiName(image), (<<"config.sh">>), ChangesName(image), (<<"f">>)>>
    /\ fs[<<"f">>] = File(<<>>)
    /\ fs[ChangesName(image)] = File(<<>>)
    /\ fs[<<"config.sh">>].data # <<>>

\* C10: the returned list is exactly the files the call wrote: every write targets
\* a returned name, every returned name is the target of exactly one write, and a
\* changelog that already existed is not in the list.
C10_ListIsWrites ==
    Returned =>
        /\ \A i \in 1..Len(tasks) : \E k \in 1..Len(outcome.val) : outcome.val[k] = tasks[i].fname
        /\ \A k \in 1..Len(outcome.val) :
              Cardinality({i \in 1..Len(tasks) : tasks[i].fname = outcome.val[k]}) = 1
        /\ ChangelogExisted =>
              \A k \in 1..Len(outcome.val) : outcome.val[k] # ChangesName(image)

\* The tasks in a state.
TasksIn(st) == {i \in 1..Len(tasks) : tasks[i].st = st}

\* C11: write_files_to_folder returns its list only after the join: when it has
\* returned, every write task it started has written its contents and closed its
\* file.
C11_JoinBeforeReturn ==
    Returned => \A i \in 1..Len(tasks) : tasks[i].st = "closed"

C11_Witness ==
    /\ Returned
    /\ Len(tasks) = 5
    /\ \A i \in 1..Len(tasks) : tasks[i].st = "closed" /\ fs[tasks[i].fname].exists

\* C12: if a write fails the whole call fails: it never returns a list, while it
\* waits it can only raise, and the exception it raises is the failed write's own.
C12_FailureIsFatal ==
    /\ TasksIn("failed") # {} => ~Returned
    /\ (wpc = "gather" /\ TasksIn("failed") # {}) =>
            (ENABLED GatherRaise /\ ~ENABLED GatherReturn)
    /\ outcome.kind = "OSError" =>
            (outcome.task \in TasksIn("failed") /\ wpc = "raised")
    /\ (outcome.kind = "OSError" /\ Cardinality(TasksIn("failed")) = 1) =>
            TasksIn("failed") = {outcome.task}

C12_Witness ==
    /\ wpc = "raised"
    /\ outcome.kind = "OSError"
    /\ TasksIn("failed") = {3}
    /\ TasksIn("closed") = {1, 2, 4}

\* C13 as claimed: no two write tasks of one call target the same file, also when
\* a key of extra_files is the name of a generated file.
C13_DistinctTargets ==
    \A i, j \in 1..Len(tasks) : i # j => tasks[i].fname # tasks[j].fname

\* C14: a failing write cancels nothing and the first failure is the one the
\* caller sees: the exception gather holds is that of the first task to fail and
\* later failures do not replace it, raising it leaves every task as it is, and
\* no task is ever cancelled.
C14_FirstFailureNoCancel ==
    [][/\ (firstFailed = 0 /\ firstFailed' # 0) =>
            (tasks[firstFailed'].st # "failed" /\ tasks'[firstFailed'].st = "failed"
             /\ TasksIn("failed") = {})
       /\ firstFailed # 0 => firstFailed' = firstFailed
       /\ (wpc = "gather" /\ wpc' = "raised") =>
            (outcome'.task = firstFailed /\ firstFailed # 0 /\ tasks' = tasks)
       /\ \A i \in 1..Len(tasks') :
            tasks'[i].st \in {"created", "opened", "written", "closed", "failed"}
      ]_vars

C14_Witness ==
    /\ outcome.kind = "OSError"
    /\ outcome.task = 2
    /\ TasksIn("failed") = {1, 2}
    /\ TasksIn("closed") = {3}

\* The call got as far as starting its writes: it did not raise ValueError first.
Started == wpc # "idle" /\ outcome.kind # "ValueError"

\* The names the tasks of the call write to.
Targets == {tasks[i].fname : i \in 1..Len(tasks)}

C15_Immutable == [][ctor = "ok" => image' = image]_vars

\* Properties have been read and a second call of write_files_to_folder has
\* returned, on a descriptor that carries packages, env and extra files.
C15_Witness ==
    /\ Returned
    /\ dest0[<<"_service">>].exists
    /\ ret.op = "kiwi_additional_tags"
    /\ image.cls = "ApplicationStackContainer"
    /\ image.registry_prefix = <<"s", "u", "s", "e">>
    /\ image.env # <<>> /\ image.extra_files # <<>> /\ image.package_list # <<>>

\* s without its first n atoms.
Drop(s, n) == SubSeq(s, n + 1, Len(s))

\* The registry prefix the claim gives a stack variant, with the separator.
PrefixOf(cls) ==
    IF cls = "LanguageStackContainer" THEN <<"b", "c", "i", "/">> ELSE <<"s", "u", "s", "e", "/">>

OtherStack(cls) ==
    IF cls = "LanguageStackContainer" THEN "ApplicationStackContainer"
    ELSE "LanguageStackContainer"

\* The tags of the other stack variant constructed from the arguments of image.
TwinTags ==
    build_tags(PostInit([image EXCEPT !.cls = OtherStack(image.cls),
                                      !.registry_prefix = DefaultImage.registry_prefix]).self)

\* C16: every build tag of a LanguageStackContainer starts with "bci/" and every
\* build tag of an ApplicationStackContainer starts with "suse/", for the primary
\* name and for every additional name; the tags of the two variants built from the
\* same fields are equal, one by one, after that prefix.
C16_RegistryPrefix ==
    (ret.op = "build_tags" /\ image.cls # "OsContainer") =>
        LET pre == PrefixOf(image.cls)
            other == PrefixOf(OtherStack(image.cls))
        IN  /\ \A i \in 1..Len(ret.val) : SubSeq(ret.val[i], 1, Len(pre)) = pre
            /\ Len(TwinTags) = Len(ret.val)
            /\ \A i \in 1..Len(ret.val) :
                  /\ SubSeq(TwinTags[i], 1, Len(other)) = other
                  /\ Drop(TwinTags[i], Len(other)) = Drop(ret.val[i], Len(pre))

C16_Witness ==
    /\ ret.op = "build_tags"
    /\ image.cls = "ApplicationStackContainer"
    /\ image.additional_names = <<(<<"x", "a">>)>>
    /\ image.is_latest
    /\ Len(ret.val) = 6
    /\ ret.val[4] = <<"s", "u", "s", "e", "/", "x", "a", ":", "1">>
    /\ TwinTags[4] = <<"b", "c", "i", "/", "x", "a", ":", "1">>

\* C18: description is custom_description when that is non-empty and otherwise
\* "Image containing {pretty_name} based on the SLE Base Container Image."; title
\* is "SLE BCI {pretty_name} Container Image" (the descriptor has no field that
\* overrides the title).
C18_TitleDescription ==
    /\ ret.op = "description" =>
          ret.val = IF image.custom_description = <<>>
                    THEN <<"Image containing ">> \o image.pretty_name
                         \o <<" based on the SLE Base Container Image.">>
                    ELSE image.custom_description
    /\ ret.op = "title" =>
          ret.val = <<"SLE BCI ">> \o image.pretty_name \o <<" Container Image">>

C18_Witness ==
    /\ ret.op = "description"
    /\ image.custom_description = <<"D">>
    /\ image.pretty_name = <<"Q", "r">>
    /\ ret.val = <<"D">>

\* The tag parts of the tags published under the descriptor's own name, but the
\* primary one.
OwnTagParts ==
    LET own == Tail(build_tags([image EXCEPT !.additional_names = <<>>])) IN
    [i \in 1..Len(own) |-> SplitOn(own[i], ":")[2]]

\* C19: kiwi_additional_tags is the comma-separated list, in build_tags order, of
\* the tag parts of the build tags other than the first that are published under
\* the descriptor's own name, and None when there is none; no tag of an
\* additional name is included.
C19_OwnNameOnly ==
    ret.op = "kiwi_additional_tags" =>
        /\ ~ret.raised
        /\ ret.val.none <=> OwnTagParts = <<>>
        /\ ~ret.val.none => ret.val.s = Join(OwnTagParts, <<",">>)

\* C20: dockerfile_custom_end is custom_end when that is non-empty, otherwise
\* "RUN " + config_sh_script when that is non-empty, otherwise ""; a constructed
\* descriptor has at most one of the two non-empty, so no tail is dropped.
C20_TailKept ==
    ret.op = "dockerfile_custom_end" =>
          /\ image.custom_end = <<>> \/ image.config_sh_script = <<>>
          /\ ret.val = IF image.custom_end # <<>> THEN image.custom_end
                       ELSE IF image.config_sh_script # <<>>
                            THEN <<"RUN ">> \o image.config_sh_script
                            ELSE <<>>
          /\ image.custom_end # <<>> => ret.val = image.custom_end
          /\ image.config_sh_script # <<>> => ret.val = <<"RUN ">> \o image.config_sh_script

\* A kiwi descriptor with custom_end set and no config_sh_script.
KiwiWithCustomEnd ==
    /\ image.build_recipe_type = "kiwi"
    /\ image.custom_end # <<>>
    /\ image.config_sh_script = <<>>

\* C21: write_files_to_folder called on a kiwi descriptor with custom_end set and
\* no config_sh_script raises ValueError, and the destination stays as it was
\* before the call, however the tasks the call had started are scheduled.
C21_FailedCallLeavesDest ==
    (KiwiWithCustomEnd /\ wpc # "idle") =>
        /\ wpc = "raised"
        /\ outcome.kind = "ValueError"
        /\ fs = dest0

\* The catalog is built and the key "nodejs-16-sp3" removed.
CatalogBuilt == cli.pc \in {"main", "parsed", "usage", "selected"}

\* C22: the keys "{nvr}-sp{sp_version}" of the listed descriptors are unique, so
\* no turn of the comprehension replaces a descriptor; the built catalog holds
\* every listed descriptor except the one under "nodejs-16-sp3", and a key the
\* command line accepts selects the descriptor the key was made from.
C22_KeysUnique ==
    /\ cli.pc \in {"import", "main", "parsed", "usage", "selected"}
    /\ cli.pc = "import" => Len(catalog) = consumed
    /\ \A i \in 1..Len(catalog) : CatalogKey(catalog[i].bci) = catalog[i].key
    /\ \A i, j \in 1..Len(catalog) : i # j => catalog[i].key # catalog[j].key
    /\ CatalogBuilt =>
          /\ Len(catalog) = Len(Listed) - 1
          /\ \A k \in 1..Len(Listed) :
                CatalogKey(Listed[k]) # PoppedKey =>
                    /\ CatalogKey(Listed[k]) \in DictKeys(catalog)
                    /\ DictGet(catalog, CatalogKey(Listed[k])) = Listed[k]
          /\ PoppedKey \notin DictKeys(catalog)
    /\ cli.pc \in {"parsed", "selected"} => cli.key \in DictKeys(catalog)
    /\ cli.pc = "selected" =>
          /\ CatalogKey(cli.bci) = cli.key
          /\ \E k \in 1..Len(Listed) : Listed[k] = cli.bci

C22_Witness ==
    /\ cli.pc = "selected"
    /\ cli.key = <<"n", "o", "d", "e", "j", "s", "-", "1", "6", "-", "s", "p", "4">>
    /\ cli.bci = NODE_CONTAINERS[6]
    /\ Len(catalog) = 34

\* The containers of TOMCAT_CONTAINERS marked latest.
TomcatLatest == {i \in 1..Len(tomcat) : tomcat[i].is_latest}

\* C23: a Tomcat container is marked is_latest only if its major is the highest
\* entry of _TOMCAT_VERSIONS, its OS version is Tumbleweed and that OS version is
\* in CAN_BE_LATEST_OS_VERSION; at most one container is marked latest.
C23_TomcatLatest ==
    /\ \A i \in TomcatLatest :
          /\ \A k \in 1..Len(_TOMCAT_VERSIONS) : _TOMCAT_VERSIONS[k] <= tomcat[i].version
          /\ tomcat[i].os_version = "TUMBLEWEED"
          /\ tomcat[i].os_version \in can_be_latest
    /\ Cardinality(TomcatLatest) <= 1

C23_Witness ==
    /\ Len(tomcat) = 3
    /\ can_be_latest = {"SP6", "TUMBLEWEED"}
    /\ TomcatLatest = {1}

====
